---- MODULE Spec2Model ----
(***************************************************************************)
(* Target Value Finder (src/app.py): the search engine find_subsets, its   *)
(* four strategies, reconstruct_items and the ProgressTracker.             *)
(*                                                                         *)
(* Numbers.  Item values and targets are integers.  A tolerance is kept as *)
(* its numerator over TolDen (main divides the slider's percent by 100),   *)
(* so the tolerance 0.2 is the number 20.  Every comparison of the code is *)
(* stated with both sides multiplied by TolDen (and, for the quotient, by  *)
(* the absolute value of the divisor), which is exact over the rationals.  *)
(* Floating-point rounding is outside the model.                           *)
(***************************************************************************)
EXTENDS Integers, Sequences, FiniteSets, TLC

VARIABLES
    data,           \* the Item Store handed to find_subsets
    targets,        \* the ordered target list
    operation,      \* "sum" | "difference" | "product" | "quotient"
    tolerance,      \* numerator of the tolerance over TolDen
    progress,       \* TRUE: a ProgressTracker is passed, FALSE: progress=None
    total_steps,    \* ProgressTracker.total_steps
    current_step,   \* ProgressTracker.current_step
    progress_bar,   \* numerator of the bar's value over total_steps
    i,              \* find_subsets: number of targets processed so far
    subset,         \* find_subsets: what the strategy returned last
    results,        \* find_subsets: the accumulated (target, subset) pairs
    pc,             \* "loop" | "returned" | "raised" | "recon" | "recon_done"
    raised_in,      \* where a ZeroDivisionError was raised, "" if none
    examined,       \* candidates examined by the last strategy call
    notified,       \* progress.update calls made inside the last strategy call
    wanted,         \* reconstruct_items called alone: its values argument
    recon           \* reconstruct_items called alone: its return value

vars == <<data, targets, operation, tolerance, progress, total_steps,
          current_step, progress_bar, i, subset, results, pc, raised_in,
          examined, notified, wanted, recon>>

(***************************************************************************)
(* Bounds of the model and constants of the program.                       *)
(***************************************************************************)
MaxItems == 3
MaxTargets == 2
MaxWanted == 3
ColumnRows == 2
TolDen == 100
UpdateEvery == 100

\* The inputs: cell values, targets, tolerances (0, 0.2 and 1.0) and operations.
Values == {-2, 0, 1, 2}
TargetValues == {-8, 2}
Tolerances == {0, 20, 100}
Operations == {"sum", "difference", "product", "quotient"}

SeqsUpTo(S, n) == UNION {[1..k -> S] : k \in 0..n}

Abs(x) == IF x < 0 THEN -x ELSE x
Max(a, b) == IF a >= b THEN a ELSE b
Min(a, b) == IF a <= b THEN a ELSE b

(***************************************************************************)
(* main: the Item Store is built column by column, row = index + 2.        *)
(* The table has two columns; column "A" holds the first ColumnRows cells. *)
(***************************************************************************)
MakeData(vs) ==
    [k \in 1..Len(vs) |->
        [value  |-> vs[k],
         column |-> IF k <= ColumnRows THEN "A" ELSE "B",
         row    |-> (IF k <= ColumnRows THEN k - 1 ELSE k - ColumnRows - 1) + 2]]

\* The value None, and a returned list of items.
None == [found |-> FALSE, items |-> <<>>]
Found(items) == [found |-> TRUE, items |-> items]

\* Python truthiness of a strategy's return value (`if subset:`).
Truthy(r) == r.found /\ r.items # <<>>

(***************************************************************************)
(* ProgressTracker                                                         *)
(***************************************************************************)
\* update raises ZeroDivisionError at current_step / total_steps
update_raises(steps) == steps = 0

\* min(current_step / total_steps, 1.0), as a numerator over total_steps
bar_value(step, steps) == Min(step, steps)

(***************************************************************************)
(* reconstruct_items                                                       *)
(***************************************************************************)
list_contains(list, v) == \E k \in 1..Len(list) : list[k] = v

\* faulty variant: every occurrence of v is removed, not only the first
list_remove_all(list, v) == SelectSeq(list, LAMBDA x : x # v)

\* list.remove(v): removes the first occurrence of v
list_remove(list, v) ==
    LET k == CHOOSE j \in 1..Len(list) :
                 list[j] = v /\ \A m \in 1..(j - 1) : list[m] # v
    IN  [m \in 1..(Len(list) - 1) |-> IF m < k THEN list[m] ELSE list[m + 1]]

RECURSIVE reconstruct_scan(_, _, _, _)
reconstruct_scan(full_data, k, result, remaining) ==
    IF k > Len(full_data) THEN None
    ELSE IF list_contains(remaining, full_data[k].value)
         THEN LET result2 == Append(result, full_data[k])
                  remaining2 == list_remove(remaining, full_data[k].value)
              IN  IF remaining2 = <<>> THEN Found(result2)
                  ELSE reconstruct_scan(full_data, k + 1, result2, remaining2)
         ELSE reconstruct_scan(full_data, k + 1, result, remaining)

Reverse(s) == [k \in 1..Len(s) |-> s[Len(s) + 1 - k]]

\* faulty variant: the store is scanned from its end
reconstruct_items_reversed(full_data, values) ==
    reconstruct_scan(Reverse(full_data), 1, <<>>, values)

reconstruct_items(full_data, values) ==
    reconstruct_scan(full_data, 1, <<>>, values)

(***************************************************************************)
(* itertools.combinations(values, r): the r-tuples of values at increasing *)
(* positions, in lexicographic order of the positions.                     *)
(***************************************************************************)
RECURSIVE index_combinations(_, _, _)
index_combinations(lo, n, r) ==
    IF r = 0 THEN << <<>> >>
    ELSE IF lo > n THEN <<>>
    ELSE LET with == index_combinations(lo + 1, n, r - 1)
         IN  [k \in 1..Len(with) |-> <<lo>> \o with[k]]
             \o index_combinations(lo + 1, n, r)

combinations(values, r) ==
    LET idx == index_combinations(1, Len(values), r)
    IN  [k \in 1..Len(idx) |-> [m \in 1..r |-> values[idx[k][m]]]]

\* position of the first candidate the loop stops at, 0 if it runs out
RECURSIVE first_true(_, _)
first_true(flags, k) ==
    IF k > Len(flags) THEN 0
    ELSE IF flags[k] THEN k
    ELSE first_true(flags, k + 1)

item_values(items) == [k \in 1..Len(items) |-> items[k].value]

\* what a strategy hands back: its return value, whether it raised, and the
\* numbers of candidates examined and of progress.update calls made
Outcome(r, raised, n, updates) ==
    [found |-> r.found, items |-> r.items, raised |-> raised,
     examined |-> n, updates |-> updates]

(***************************************************************************)
(* find_subset_sum                                                         *)
(***************************************************************************)
\* dp is the dict {sum: items}, kept as its entries in insertion order
dp_has(dp, key) == \E k \in 1..Len(dp) : dp[k].key = key
dp_get(dp, key) == dp[CHOOSE k \in 1..Len(dp) : dp[k].key = key].items
dp_keys(dp) == [k \in 1..Len(dp) |-> dp[k].key]

\* faulty variant: the membership test is inverted
dp_record_inverted(dp, new_sum, items) ==
    IF dp_has(dp, new_sum)
    THEN [k \in 1..Len(dp) |->
             IF dp[k].key = new_sum THEN [key |-> new_sum, items |-> items]
             ELSE dp[k]]
    ELSE dp

\* if new_sum not in dp: dp[new_sum] = dp[s] + [item]
dp_record(dp, new_sum, items) ==
    IF dp_has(dp, new_sum) THEN dp
    ELSE Append(dp, [key |-> new_sum, items |-> items])

\* faulty variant: abs(new_sum) - target <= tolerance
sum_within_misplaced(new_sum, target, tol) ==
    (Abs(new_sum) - target) * TolDen <= tol

\* abs(new_sum - target) <= tolerance
sum_within(new_sum, target, tol) == Abs(new_sum - target) * TolDen <= tol

\* faulty variant: the sink is notified for every item
sum_should_update_always(prog, idx) == prog

\* if progress and i % 100 == 0
sum_should_update(prog, idx) == prog /\ idx % UpdateEvery = 0

RECURSIVE sum_inner(_, _, _, _, _, _)
sum_inner(dp, keys, k, item, target, tol) ==
    IF k > Len(keys)
    THEN [found |-> FALSE, items |-> <<>>, dp |-> dp, examined |-> Len(keys)]
    ELSE LET s == keys[k]
             new_sum == s + item.value
             path == Append(dp_get(dp, s), item)
         IN  IF sum_within(new_sum, target, tol)
             THEN [found |-> TRUE, items |-> path, dp |-> dp, examined |-> k]
             ELSE sum_inner(dp_record(dp, new_sum, path), keys, k + 1,
                            item, target, tol)

RECURSIVE sum_outer(_, _, _, _, _, _, _, _)
sum_outer(store, k, dp, target, tol, prog, n, updates) ==
    IF k > Len(store) THEN Outcome(None, FALSE, n, updates)
    ELSE LET u == updates + (IF sum_should_update(prog, k - 1) THEN 1 ELSE 0)
             r == sum_inner(dp, dp_keys(dp), 1, store[k], target, tol)
         IN  IF r.found
             THEN Outcome(Found(r.items), FALSE, n + r.examined, u)
             ELSE sum_outer(store, k + 1, r.dp, target, tol, prog,
                            n + r.examined, u)

find_subset_sum(store, target, tol, prog) ==
    sum_outer(store, 1, <<[key |-> 0, items |-> <<>>]>>, target, tol, prog, 0, 0)

(***************************************************************************)
(* find_subset_difference                                                  *)
(***************************************************************************)
\* abs(abs(a - b) - target) <= tolerance
difference_within(a, b, target, tol) ==
    Abs(Abs(a - b) - target) * TolDen <= tol

find_subset_difference(store, target, tol, prog) ==
    LET values == item_values(store)
        combos == combinations(values, 2)
        hit == first_true([k \in 1..Len(combos) |->
                   difference_within(combos[k][1], combos[k][2],
                                     target, tol)], 1)
        n == IF hit = 0 THEN Len(combos) ELSE hit
    IN  Outcome(IF hit = 0 THEN None ELSE reconstruct_items(store, combos[hit]),
                FALSE, n, IF prog THEN n ELSE 0)

(***************************************************************************)
(* find_subset_product                                                     *)
(***************************************************************************)
\* abs(product - target) <= tolerance * target
product_within(product, target, tol) ==
    Abs(product - target) * TolDen <= tol * target

\* [item["value"] for item in data if item["value"] != 0]
nonzero_values(store) == SelectSeq(item_values(store), LAMBDA v : v # 0)

\* faulty variant: triplets are searched before pairs
find_subset_product_triplets_first(store, target, tol, prog) ==
    LET values == nonzero_values(store)
        pairs == combinations(values, 2)
        triplets == combinations(values, 3)
        hit3 == first_true([k \in 1..Len(triplets) |->
                   product_within(
                       triplets[k][1] * triplets[k][2] * triplets[k][3],
                       target, tol)], 1)
        hit2 == first_true([k \in 1..Len(pairs) |->
                   product_within(pairs[k][1] * pairs[k][2],
                                             target, tol)], 1)
        n == IF hit3 # 0 THEN hit3
             ELSE Len(triplets) + (IF hit2 # 0 THEN hit2 ELSE Len(pairs))
    IN  Outcome(IF hit3 # 0 THEN reconstruct_items(store, triplets[hit3])
                ELSE IF hit2 # 0 THEN reconstruct_items(store, pairs[hit2])
                ELSE None,
                FALSE, n, IF prog THEN n ELSE 0)

find_subset_product(store, target, tol, prog) ==
    LET values == nonzero_values(store)
        pairs == combinations(values, 2)
        triplets == combinations(values, 3)
        hit2 == first_true([k \in 1..Len(pairs) |->
                   product_within(pairs[k][1] * pairs[k][2],
                                             target, tol)], 1)
        hit3 == first_true([k \in 1..Len(triplets) |->
                   product_within(
                       triplets[k][1] * triplets[k][2] * triplets[k][3],
                       target, tol)], 1)
        n == IF hit2 # 0 THEN hit2
             ELSE Len(pairs) + (IF hit3 # 0 THEN hit3 ELSE Len(triplets))
    IN  Outcome(IF hit2 # 0 THEN reconstruct_items(store, pairs[hit2])
                ELSE IF hit3 # 0 THEN reconstruct_items(store, triplets[hit3])
                ELSE None,
                FALSE, n, IF prog THEN n ELSE 0)

(***************************************************************************)
(* find_subset_quotient                                                    *)
(***************************************************************************)
\* faulty variant: zero-valued items are kept
all_items(store) == store

\* [item for item in data if item["value"] != 0]
nonzero_items(store) == SelectSeq(store, LAMBDA item : item.value # 0)

\* isclose(num / den, target, rel_tol=tolerance) for den # 0:
\* |num/den - target| <= tolerance * max(|num/den|, |target|), times |den|
isclose_ratio(num, den, target, tol) ==
    Abs(num - target * den) * TolDen
        <= tol * Max(Abs(num), Abs(target * den))

\* isclose(a / b, ...) or isclose(b / a, ...), evaluated left to right
quotient_step(a, b, target, tol) ==
    IF b = 0 THEN "raise"
    ELSE IF isclose_ratio(a, b, target, tol) THEN "match"
    ELSE IF a = 0 THEN "raise"
    ELSE IF isclose_ratio(b, a, target, tol) THEN "match"
    ELSE "miss"

find_subset_quotient(store, target, tol, prog) ==
    LET kept == nonzero_items(store)
        values == item_values(kept)
        combos == combinations(values, 2)
        hit == first_true([k \in 1..Len(combos) |->
                   quotient_step(combos[k][1], combos[k][2],
                                 target, tol) # "miss"], 1)
        n == IF hit = 0 THEN Len(combos) ELSE hit
        raised == hit # 0 /\ quotient_step(combos[hit][1], combos[hit][2],
                                            target, tol) = "raise"
    IN  Outcome(IF hit = 0 \/ raised THEN None
                ELSE reconstruct_items(kept, combos[hit]),
                raised, n, IF prog THEN n ELSE 0)

(***************************************************************************)
(* find_subsets                                                            *)
(***************************************************************************)
strategy(op, store, target, tol, prog) ==
    CASE op = "sum" -> find_subset_sum(store, target, tol, prog)
      [] op = "product" -> find_subset_product(store, target, tol, prog)
      [] op = "difference" -> find_subset_difference(store, target, tol, prog)
      [] op = "quotient" -> find_subset_quotient(store, target, tol, prog)

\* faulty variant: the entry of a target is appended whether or not it matched
collect_unfiltered(res, target, r) == Append(res, <<target, r.items>>)

\* if subset: results.append((target, subset))
collect(res, target, r) ==
    IF Truthy(r) THEN Append(res, <<target, r.items>>) ELSE res

TypeOK ==
    /\ operation \in Operations
    /\ tolerance \in Tolerances
    /\ progress \in BOOLEAN
    /\ i \in 0..Len(targets)
    /\ pc \in {"loop", "returned", "raised", "recon", "recon_done"}

Init ==
    /\ \E vs \in SeqsUpTo(Values, MaxItems) : data = MakeData(vs)
    /\ targets \in SeqsUpTo(TargetValues, MaxTargets)
    /\ operation \in Operations
    /\ tolerance \in Tolerances
    /\ progress \in BOOLEAN
    /\ total_steps = IF progress THEN Len(targets) * Len(data) ELSE 0
    /\ current_step = 0
    /\ progress_bar = 0
    /\ i = 0
    /\ subset = None
    /\ results = <<>>
    /\ pc = "loop"
    /\ raised_in = ""
    /\ examined = 0
    /\ notified = 0
    /\ wanted = <<>>
    /\ recon = None

\* progress.update("Searching for ...") raises: 1 / 0
UpdateRaises ==
    /\ pc = "loop"
    /\ i < Len(targets)
    /\ progress
    /\ update_raises(total_steps)
    /\ current_step' = current_step + 1
    /\ pc' = "raised"
    /\ raised_in' = "ProgressTracker.update"
    /\ UNCHANGED <<data, targets, operation, tolerance, progress, total_steps,
                   progress_bar, i, subset, results, examined, notified,
                   wanted, recon>>

\* one iteration of the loop over the targets, dispatching to op
Iteration(op) ==
    /\ pc = "loop"
    /\ i < Len(targets)
    /\ ~(progress /\ update_raises(total_steps))
    /\ \E r \in {strategy(op, data, targets[i + 1], tolerance, progress)} :
        LET target == targets[i + 1]
            step == current_step + (IF progress THEN 1 + r.updates ELSE 0)
        IN  /\ current_step' = step
            /\ progress_bar' = IF progress THEN bar_value(step, total_steps)
                               ELSE progress_bar
            /\ examined' = r.examined
            /\ notified' = r.updates
            /\ IF r.raised
               THEN /\ pc' = "raised"
                    /\ raised_in' = "find_subset_quotient"
                    /\ UNCHANGED <<i, subset, results>>
               ELSE /\ subset' = [found |-> r.found, items |-> r.items]
                    /\ results' = collect(results, target, r)
                    /\ i' = i + 1
                    /\ UNCHANGED <<pc, raised_in>>
    /\ UNCHANGED <<data, targets, operation, tolerance, progress, total_steps,
                   wanted, recon>>

\* if operation == "sum": ...
SearchSum ==
    /\ operation = "sum"
    /\ Iteration("sum")

\* elif operation == "product": ...
SearchProduct ==
    /\ operation = "product"
    /\ Iteration("product")

\* elif operation == "difference": ...
SearchDifference ==
    /\ operation = "difference"
    /\ Iteration("difference")

\* elif operation == "quotient": ...
SearchQuotient ==
    /\ operation = "quotient"
    /\ Iteration("quotient")


\* return results
Return ==
    /\ pc = "loop"
    /\ i = Len(targets)
    /\ pc' = "returned"
    /\ UNCHANGED <<data, targets, operation, tolerance, progress, total_steps,
                   current_step, progress_bar, i, subset, results, raised_in,
                   examined, notified, wanted, recon>>

Next ==
    \/ UpdateRaises
    \/ SearchSum
    \/ SearchProduct
    \/ SearchDifference
    \/ SearchQuotient
    \/ Return

Spec == Init /\ [][Next]_vars

(***************************************************************************)
(* reconstruct_items called on its own, with any list of wanted values.    *)
(***************************************************************************)
InitRecon ==
    /\ \E vs \in SeqsUpTo(Values, MaxItems) : data = MakeData(vs)
    /\ wanted \in SeqsUpTo(Values, MaxWanted)
    /\ recon = None
    /\ pc = "recon"
    /\ targets = <<>>
    /\ operation = "sum"
    /\ tolerance = 0
    /\ progress = FALSE
    /\ total_steps = 0
    /\ current_step = 0
    /\ progress_bar = 0
    /\ i = 0
    /\ subset = None
    /\ results = <<>>
    /\ raised_in = ""
    /\ examined = 0
    /\ notified = 0

Reconstruct ==
    /\ pc = "recon"
    /\ recon' = reconstruct_items(data, wanted)
    /\ pc' = "recon_done"
    /\ UNCHANGED <<data, targets, operation, tolerance, progress, total_steps,
                   current_step, progress_bar, i, subset, results, raised_in,
                   examined, notified, wanted>>

NextRecon == Reconstruct

SpecRecon == InitRecon /\ [][NextRecon]_vars

(***************************************************************************)
(* Vocabulary of the properties.  Back in the loop of find_subsets with     *)
(* i >= 1, the strategy has just been called for the target targets[i].    *)
(***************************************************************************)
Called(op) == pc = "loop" /\ operation = op /\ i >= 1

\* the tuples of r strictly increasing store positions
IncTuples(r) ==
    {c \in [1..r -> 1..Len(data)] : \A k \in 1..(r - 1) : c[k] < c[k + 1]}

ItemsAt(c) == [k \in 1..Len(c) |-> data[c[k]]]

\* items are store items at strictly increasing store positions
FromStoreInOrder(items) ==
    \E c \in IncTuples(Len(items)) : items = ItemsAt(c)

LexBefore(c, d) ==
    \E k \in 1..Len(c) : c[k] < d[k] /\ \A m \in 1..(k - 1) : c[m] = d[m]

LexFirst(S) == CHOOSE c \in S : \A d \in S : d = c \/ LexBefore(c, d)

RECURSIVE ValueSum(_)
ValueSum(items) ==
    IF items = <<>> THEN 0 ELSE items[1].value + ValueSum(Tail(items))

RECURSIVE ValueProduct(_)
ValueProduct(items) ==
    IF items = <<>> THEN 1 ELSE items[1].value * ValueProduct(Tail(items))

Count(list, v) == Cardinality({k \in 1..Len(list) : list[k] = v})

\* |sum - t| <= tolerance
SumClose(items, t) == Abs(ValueSum(items) - t) * TolDen <= tolerance

\* | |a - b| - t | <= tolerance
DifferenceClose(items, t) ==
    Abs(Abs(items[1].value - items[2].value) - t) * TolDen <= tolerance

\* no zero factor, and |product - t| <= tolerance * t
ProductClose(items, t) ==
    /\ \A k \in 1..Len(items) : items[k].value # 0
    /\ Abs(ValueProduct(items) - t) * TolDen <= tolerance * t

\* |a/b - t| <= tolerance * max(|a/b|, |t|), for b # 0
RatioClose(a, b, t) ==
    Abs(a - t * b) * TolDen <= tolerance * Max(Abs(a), Abs(t * b))

\* no zero item, and a/b or b/a is close to t
QuotientClose(items, t) ==
    /\ items[1].value # 0
    /\ items[2].value # 0
    /\ \/ RatioClose(items[1].value, items[2].value, t)
       \/ RatioClose(items[2].value, items[1].value, t)

Qualifying(op, r, t) ==
    {c \in IncTuples(r) :
        CASE op = "difference" -> DifferenceClose(ItemsAt(c), t)
          [] op = "product" -> ProductClose(ItemsAt(c), t)
          [] op = "quotient" -> QuotientClose(ItemsAt(c), t)}

\* what find_subsets has to have collected after its first k targets
RECURSIVE ExpectedResults(_)
ExpectedResults(k) ==
    IF k = 0 THEN <<>>
    ELSE LET alone == strategy(operation, data, targets[k], tolerance, FALSE)
         IN  IF alone.found
             THEN Append(ExpectedResults(k - 1), <<targets[k], alone.items>>)
             ELSE ExpectedResults(k - 1)

(***************************************************************************)
(* C1  Subset-sum soundness: a match returned by find_subset_sum is a      *)
(* non-empty list of store items at strictly increasing store positions    *)
(* whose values sum to within the tolerance of the target.                 *)
(***************************************************************************)
C1_SubsetSumSound ==
    (Called("sum") /\ subset.found) =>
        /\ subset.items # <<>>
        /\ FromStoreInOrder(subset.items)
        /\ SumClose(subset.items, targets[i])

C1_Witness ==
    /\ Called("sum")
    /\ subset.found
    /\ Len(subset.items) >= 2
    /\ Len(data) > Len(subset.items)

(***************************************************************************)
(* C2  Subset-sum completeness: find_subset_sum reports no match if and    *)
(* only if no non-empty subset of the store sums to within the tolerance   *)
(* of the target.                                                          *)
(***************************************************************************)
RECURSIVE PositionSum(_)
PositionSum(S) ==
    IF S = {} THEN 0
    ELSE LET p == CHOOSE x \in S : TRUE
         IN  data[p].value + PositionSum(S \ {p})

SomeSubsetSums(t) ==
    \E S \in SUBSET (1..Len(data)) :
        S # {} /\ Abs(PositionSum(S) - t) * TolDen <= tolerance

C2_SubsetSumComplete ==
    Called("sum") => (~subset.found <=> ~SomeSubsetSums(targets[i]))

\* no match, although two different subsets reach the same sum
C2_Witness ==
    /\ Called("sum")
    /\ ~subset.found
    /\ Len(data) >= 3
    /\ data[1].value = data[2].value
    /\ data[1].value # 0

C4_ProductPrefersPairs ==
    Called("product") =>
        \E pair \in {Qualifying("product", 2, targets[i]) # {}} :
        \E triplet \in {Qualifying("product", 3, targets[i]) # {}} :
            /\ pair => (subset.found /\ Len(subset.items) = 2)
            /\ (subset.found /\ Len(subset.items) = 3) => (~pair /\ triplet)
            /\ ~subset.found => (~pair /\ ~triplet)
            /\ subset.found =>
                  /\ Len(subset.items) \in {2, 3}
                  /\ ProductClose(subset.items, targets[i])

\* a pair and a triplet both qualify
C4_Witness ==
    /\ Called("product")
    /\ Qualifying("product", 2, targets[i]) # {}
    /\ Qualifying("product", 3, targets[i]) # {}
    /\ Len(subset.items) = 2

(***************************************************************************)
(* C5  Quotient search never divides by zero, and a match is exactly two   *)
(* store items, neither zero-valued, with a/b or b/a within the relative   *)
(* tolerance of the target.                                                *)
(***************************************************************************)
C5_QuotientSafeSound ==
    /\ raised_in # "find_subset_quotient"
    /\ (Called("quotient") /\ subset.found) =>
          /\ Len(subset.items) = 2
          /\ FromStoreInOrder(subset.items)
          /\ QuotientClose(subset.items, targets[i])

\* a store with a zero-valued item, matched through b/a only
C5_Witness ==
    /\ Called("quotient")
    /\ subset.found
    /\ \E p \in 1..Len(data) : data[p].value = 0
    /\ ~RatioClose(subset.items[1].value, subset.items[2].value, targets[i])

(***************************************************************************)
(* C6  Orchestrator filtering and order: find_subsets returns, in target   *)
(* order, one (target, items) entry for each target occurrence whose       *)
(* search alone finds a match, with the items that search returns, and no  *)
(* entry for the other targets.                                            *)
(***************************************************************************)
C6_FilteredInOrder ==
    pc = "returned" => results = ExpectedResults(Len(targets))

\* the first target has no match, the second has one
C6_Witness ==
    /\ pc = "returned"
    /\ Len(targets) >= 2
    /\ Len(results) = 1
    /\ results[1][1] = targets[2]
    /\ targets[1] # targets[2]

(***************************************************************************)
(* C7  Progress cadence inside a strategy.                                 *)
(* As claimed: in every strategy the sink is notified fewer times than     *)
(* candidates are examined, when more than one candidate is examined.      *)
(***************************************************************************)
C7_ThrottledEverywhere ==
    (progress /\ pc = "loop" /\ i >= 1 /\ examined > 1) => notified < examined

(***************************************************************************)
(* C7 as amended: only the sum strategy throttles (fewer notifications     *)
(* than candidates when more than one candidate is examined); difference,  *)
(* product and quotient notify once for every candidate examined.          *)
(***************************************************************************)
C7_ThrottledInSumOnly ==
    (progress /\ pc = "loop" /\ i >= 1) =>
        IF operation = "sum"
        THEN /\ examined > 1 => notified < examined
             /\ notified >= 1 <=> data # <<>>
        ELSE notified = examined

C7_Witness ==
    /\ progress
    /\ Called("sum")
    /\ examined > Len(data)
    /\ notified = 1

(***************************************************************************)
(* C8  Progress reporting does not affect the search: with the tracker of  *)
(* main, find_subsets completes, and with the results it returns without   *)
(* a progress sink.                                                        *)
(***************************************************************************)
C8_ProgressTransparent ==
    progress =>
        /\ pc # "raised"
        /\ pc = "returned" => results = ExpectedResults(Len(targets))

(***************************************************************************)
(* C9  Matching is monotone in the tolerance: a search that matches at a   *)
(* tolerance matches at every larger tolerance.                            *)
(***************************************************************************)
C9_ToleranceMonotone ==
    (pc = "loop" /\ i >= 1 /\ subset.found) =>
        \A larger \in Tolerances :
            larger >= tolerance =>
                strategy(operation, data, targets[i], larger, FALSE).found

(***************************************************************************)
(* C10  Reconstruction.                                                    *)
(* As claimed, taken on a non-empty wanted list: when the wanted values    *)
(* are contained in the store as a multiset, reconstruct_items returns as  *)
(* many store items as wanted values, each used once, the k-th item having *)
(* the k-th wanted value; and it fails only when the store runs out first. *)
(***************************************************************************)
Contained(list) ==
    \A v \in Values : Count(list, v) <= Count(item_values(data), v)

C10_PositionContract ==
    (pc = "recon_done" /\ wanted # <<>>) =>
        /\ Contained(wanted) =>
              /\ recon.found
              /\ FromStoreInOrder(recon.items)
              /\ item_values(recon.items) = wanted
        /\ ~recon.found => ~Contained(wanted)

(***************************************************************************)
(* C10 as amended: for a non-empty wanted list contained in the store,     *)
(* reconstruct_items returns store items at strictly increasing positions, *)
(* as many as wanted values, whose values are the wanted values as a       *)
(* multiset, each taken at its earliest free occurrence: the output is in  *)
(* store order, not in the order of the wanted list.  It returns the       *)
(* failure marker when the wanted list is empty or not contained.          *)
(***************************************************************************)
C10_StoreOrderContract ==
    pc = "recon_done" =>
        IF wanted # <<>> /\ Contained(wanted)
        THEN /\ recon.found
             /\ Len(recon.items) = Len(wanted)
             /\ \A v \in Values :
                   Count(item_values(recon.items), v) = Count(wanted, v)
             /\ \E c \in IncTuples(Len(wanted)) :
                   /\ recon.items = ItemsAt(c)
                   /\ \A q \in 1..Len(data) :
                         (\A k \in 1..Len(c) : c[k] # q) =>
                             \A k \in 1..Len(c) :
                                 c[k] > q => data[c[k]].value # data[q].value
        ELSE recon = None

\* the items come back in another order than the wanted values
C10_Witness ==
    /\ pc = "recon_done"
    /\ recon.found
    /\ Len(wanted) >= 2
    /\ item_values(recon.items) # wanted
    /\ \E v \in Values : Count(wanted, v) >= 2

====
